---- MODULE Spec2Model ----
(***************************************************************************)
(* Model of ZXing::OneD::RowReader (core/src/oned/ODRowReader.h): the      *)
(* run extraction (RecordPattern, RecordPatternInReverse), the sliding     *)
(* window search (FindPattern), DecodeDigit and the narrow/wide            *)
(* classification (NarrowWideThreshold, ToNarrowWidePattern).              *)
(*                                                                         *)
(* A behaviour is one call: Init draws the operation and its arguments,    *)
(* the actions execute the call's code, pc = "done" is the return.         *)
(*                                                                         *)
(* Positions of a row are 0-based, 0..Len(row); the bit at position p is   *)
(* row[p + 1].  An iterator is represented by its base position; a         *)
(* std::reverse_iterator with base b dereferences position b - 1 and is    *)
(* incremented by decrementing b.                                          *)
(***************************************************************************)
EXTENDS Integers, Sequences, FiniteSets, TLC

\* ------------------------------------------------------------------ bounds
MaxLen == 7         \* length of the row
MaxCounters == 3    \* largest counters.size()
MaxPatterns == 3    \* largest patterns.size() of DecodeDigit
MaxVariance == 2    \* variances are drawn from 0..MaxVariance
MaxView == 4        \* largest PatternView size
MaxWidth == 9       \* run widths of a PatternView are drawn from 1..MaxWidth

\* ------------------------------------------------------- program constants
INVALID_MATCH == -1
IntMax == 2147483647

\* ------------------------------------------------------------------ helpers
Max(a, b) == IF a > b THEN a ELSE b

\* *it for an iterator of the given direction
Deref(rev, r, it) == IF rev THEN r[it] ELSE r[it + 1]
\* std::advance(it, n)
Advance(rev, it, n) == IF rev THEN it - n ELSE it + n
\* b - a, the iterator difference
Distance(rev, a, b) == IF rev THEN a - b ELSE b - a

\* BitArray::getNextSetTo(begin, end, v):
\*   while (begin != end && *begin != v) ++begin;  return begin;
RECURSIVE getNextSetTo(_, _, _, _, _)
getNextSetTo(rev, r, b, e, v) ==
    IF b /= e /\ Deref(rev, r, b) /= v
    THEN getNextSetTo(rev, r, Advance(rev, b, 1), e, v)
    ELSE b

\* slip: std::copy(counters.begin() + 1, counters.end(), counters.begin())
ShiftCounters_ByOne(c) ==
    [k \in 1..Len(c) |-> IF k + 1 <= Len(c) THEN c[k + 1] ELSE c[k]]

\* std::copy(counters.begin() + 2, counters.end(), counters.begin())
ShiftCounters(c) ==
    [k \in 1..Len(c) |-> IF k + 2 <= Len(c) THEN c[k + 2] ELSE c[k]]

\* std::reverse(counters.begin(), counters.end())
ReverseCounters(c) == [k \in 1..Len(c) |-> c[Len(c) + 1 - k]]

\* slip: the test counters.back() != 0 is left out
RecordPatternResult_NoBackTest(b, e, rng, c) ==
    IF rng.end = e THEN [begin |-> b, end |-> e] ELSE rng

\* RecordPattern, lines 146-150: the range handed back by FindPattern is
\* replaced by {begin, end} when the end was reached and the last slot touched.
RecordPatternResult(b, e, rng, c) ==
    IF rng.end = e /\ c[Len(c)] /= 0 THEN [begin |-> b, end |-> e] ELSE rng

\* slip: {range.begin.base(), range.end.base()}
ReverseResult_NotSwapped(rng) == [begin |-> rng.begin, end |-> rng.end]

\* RecordPatternInReverse, line 158: {range.end.base(), range.begin.base()}
ReverseResult(rng) == [begin |-> rng.end, end |-> rng.begin]

\* The forward instantiation of FindPattern (lines 105-123) with the predicate
\* of RecordPattern, [](Iterator, Iterator, Container&) { return true; }:
\* the first full window is returned, so the window never slides.
RECURSIVE FindPatternTrue(_, _, _, _, _, _, _)
FindPatternTrue(r, b, e, it, lit, cc, c) ==
    LET ni == getNextSetTo(FALSE, r, it, e, ~Deref(FALSE, r, it))
        c2 == [c EXCEPT ![cc] = Distance(FALSE, lit, ni)]
    IN  IF ni = e
        THEN [range |-> [begin |-> e, end |-> e], counters |-> c2]
        ELSE IF cc + 1 = Len(c) + 1
             THEN [range |-> [begin |-> b, end |-> ni], counters |-> c2]
             ELSE FindPatternTrue(r, b, e, ni, ni, cc + 1, c2)

\* RecordPattern(begin, end, counters) on forward iterators, as a function of
\* its arguments: the returned range and the counters it leaves behind.
RecordPattern(r, b, e, c) ==
    LET c0 == [c EXCEPT ![Len(c)] = 0]
        fp == IF b = e
              THEN [range |-> [begin |-> e, end |-> e], counters |-> c0]
              ELSE FindPatternTrue(r, b, e, b, b, 1, c0)
    IN  [range |-> RecordPatternResult(b, e, fp.range, fp.counters),
         counters |-> fp.counters]

\* slip: an equal variance leaves bestMatch as it is
RECURSIVE DecodeDigitLoop_KeepsTie(_, _, _, _, _)
DecodeDigitLoop_KeepsTie(vs, k, bestVariance, bestMatch, unambiguous) ==
    IF k > Len(vs)
    THEN bestMatch
    ELSE IF vs[k] < bestVariance
         THEN DecodeDigitLoop_KeepsTie(vs, k + 1, vs[k], k - 1, unambiguous)
         ELSE DecodeDigitLoop_KeepsTie(vs, k + 1, bestVariance, bestMatch, unambiguous)

\* ------------------------------------------------------------- DecodeDigit
\* The loop of DecodeDigit over the variances PatternMatchVariance returned
\* for patterns[0..]; k is the 1-based position of pattern k - 1.
RECURSIVE DecodeDigitLoop(_, _, _, _, _)
DecodeDigitLoop(vs, k, bestVariance, bestMatch, unambiguous) ==
    IF k > Len(vs)
    THEN bestMatch
    ELSE IF vs[k] < bestVariance
         THEN DecodeDigitLoop(vs, k + 1, vs[k], k - 1, unambiguous)
         ELSE IF unambiguous /\ vs[k] = bestVariance
              THEN DecodeDigitLoop(vs, k + 1, bestVariance, INVALID_MATCH, unambiguous)
              ELSE DecodeDigitLoop(vs, k + 1, bestVariance, bestMatch, unambiguous)

DecodeDigit(vs, maxAvg, unambiguous) ==
    DecodeDigitLoop(vs, 1, maxAvg, INVALID_MATCH, unambiguous)

\* ------------------------------------------------- narrow/wide classification
\* BarAndSpace<T>::operator[](int i): even index -> bar, odd index -> space
BarAndSpace(x, idx) == x[(idx % 2) + 1]
\* BarAndSpace<T>::isValid()
isValid(x) == x[1] /= 0 /\ x[2] /= 0

\* the elements view[i] of the view with i % 2 = par (i is 0-based)
Elements(v, par) == {v[k] : k \in {j \in 1..Len(v) : (j - 1) % 2 = par}}
SetMin(S) == CHOOSE x \in S : \A y \in S : x <= y
SetMax(S) == CHOOSE x \in S : \A y \in S : x >= y

\* lines 220-226: m and M after the first loop
NarrowWideMin(v) == <<SetMin(Elements(v, 0) \cup {IntMax}), SetMin(Elements(v, 1) \cup {IntMax})>>
NarrowWideMax(v) == <<SetMax(Elements(v, 0) \cup {0}), SetMax(Elements(v, 1) \cup {0})>>

\* slip: test a), wide <= 4 * narrow, is left out
NarrowWideReject_NoRatioTest(m, M, idx) ==
    \/ BarAndSpace(M, idx) > 3 * BarAndSpace(M, idx + 1)
    \/ BarAndSpace(m, idx) > 2 * (BarAndSpace(m, idx + 1) + 1)

\* slip: the tests are made without the + 1 tolerance
NarrowWideReject_NoTolerance(m, M, idx) ==
    \/ BarAndSpace(M, idx) > 4 * BarAndSpace(m, idx)
    \/ BarAndSpace(M, idx) > 3 * BarAndSpace(M, idx + 1)
    \/ BarAndSpace(m, idx) > 2 * BarAndSpace(m, idx + 1)

\* line 233, the rejection test of the second loop for idx in {0, 1}
NarrowWideReject(m, M, idx) ==
    \/ BarAndSpace(M, idx) > 4 * (BarAndSpace(m, idx) + 1)
    \/ BarAndSpace(M, idx) > 3 * BarAndSpace(M, idx + 1)
    \/ BarAndSpace(m, idx) > 2 * (BarAndSpace(m, idx + 1) + 1)

\* slip: the threshold is 1.5 * min, the average is left out
NarrowWideRes_NoAverage(m, M, idx) == (BarAndSpace(m, idx) * 3) \div 2

\* line 236
NarrowWideRes(m, M, idx) ==
    Max((BarAndSpace(m, idx) + BarAndSpace(M, idx)) \div 2, (BarAndSpace(m, idx) * 3) \div 2)

NarrowWideThreshold(v) ==
    LET m == NarrowWideMin(v)
        M == NarrowWideMax(v)
    IN  IF NarrowWideReject(m, M, 0) THEN <<0, 0>>
        ELSE IF NarrowWideReject(m, M, 1) THEN <<0, 0>>
        ELSE <<NarrowWideRes(m, M, 0), NarrowWideRes(m, M, 1)>>

\* lines 253-257; k is the 1-based position of view[k - 1]
RECURSIVE ToNarrowWideLoop(_, _, _, _)
ToNarrowWideLoop(v, th, k, pattern) ==
    IF k > Len(v)
    THEN pattern
    ELSE IF v[k] > BarAndSpace(th, k - 1) * 2
         THEN -1
         ELSE ToNarrowWideLoop(v, th, k + 1,
                  2 * pattern + (IF v[k] > BarAndSpace(th, k - 1) THEN 1 ELSE 0))

ToNarrowWidePattern(v) ==
    LET th == NarrowWideThreshold(v)
    IN  IF ~isValid(th) THEN -1 ELSE ToNarrowWideLoop(v, th, 1, 0)

\* -------------------------------------------------------------------- state
VARIABLES
    op,            \* the function called
    pc,            \* "call", "loop" (line 108), "match" (line 111), "done"
    row,           \* the bits of the row
    argBegin,      \* the begin argument of the call, a forward position
    argEnd,        \* the end argument of the call, a forward position
    begin,         \* FindPattern's begin: start of the current window
    i,             \* FindPattern's i
    li,            \* FindPattern's li
    currentCounter,\* 1-based slot currentCounter points at; size + 1 is end()
    counters,      \* the caller's counters
    range,         \* the returned range, in forward positions
    evals,         \* the calls of match made so far: window, counters, answer
    variances,     \* DecodeDigit: PatternMatchVariance of patterns[0..]
    maxAvgVariance,
    requireUnambiguousMatch,
    view,          \* the PatternView of the narrow/wide classification
    threshold,     \* ToNarrowWidePattern's threshold
    result         \* the int returned by DecodeDigit / ToNarrowWidePattern

vars == <<op, pc, row, argBegin, argEnd, begin, i, li, currentCounter, counters,
          range, evals, variances, maxAvgVariance, requireUnambiguousMatch,
          view, threshold, result>>

scanVars == <<begin, i, li, currentCounter, counters, range, evals>>
digitVars == <<variances, maxAvgVariance, requireUnambiguousMatch>>

ScanOps == {"FindPattern", "RecordPattern", "RecordPatternInReverse"}
Ops == ScanOps \cup {"DecodeDigit", "ToNarrowWidePattern"}

\* RecordPatternInReverse instantiates RecordPattern and FindPattern with
\* std::reverse_iterator: rbegin(end), rend(begin) (line 155)
rev == op = "RecordPatternInReverse"
first == IF rev THEN argEnd ELSE argBegin
end == IF rev THEN argBegin ELSE argEnd

\* every shorter row is a range [begin, end) of one of these
Rows == [1..MaxLen -> BOOLEAN]
\* what the counters hold before the call: values no run of the row can have
Stale(n) == [k \in 1..n |-> MaxLen + k]
Views == UNION {[1..n -> 1..MaxWidth] : n \in 1..MaxView}
VarianceLists == UNION {[1..n -> 0..MaxVariance] : n \in 1..MaxPatterns}

NoRange == [begin |-> 0, end |-> 0]

Init ==
    /\ op \in Ops
    /\ pc = "call"
    /\ IF op \in ScanOps
       THEN /\ row \in Rows
            /\ argBegin \in 0..Len(row)
            /\ argEnd \in argBegin..Len(row)
            \* FindPattern reads counters[0] + counters[1] when it slides
            /\ \E n \in (IF op = "FindPattern" THEN 2 ELSE 1)..MaxCounters :
                   counters = Stale(n)
       ELSE /\ row = <<>>
            /\ argBegin = 0
            /\ argEnd = 0
            /\ counters = <<>>
    /\ begin = 0 /\ i = 0 /\ li = 0 /\ currentCounter = 1
    /\ range = NoRange
    /\ evals = <<>>
    /\ IF op = "DecodeDigit"
       THEN /\ variances \in VarianceLists
            /\ maxAvgVariance \in 0..(MaxVariance + 1)
            /\ requireUnambiguousMatch \in BOOLEAN
       ELSE /\ variances = <<>>
            /\ maxAvgVariance = 0
            /\ requireUnambiguousMatch = TRUE
    /\ IF op = "ToNarrowWidePattern" THEN view \in Views ELSE view = <<>>
    /\ threshold = <<0, 0>>
    /\ result = 0

\* FindPattern returns rng having left c in the counters: the callers
\* RecordPattern (lines 146-150) and RecordPatternInReverse (lines 157-158)
\* finish on it.
Return(rng, c) ==
    /\ pc' = "done"
    /\ range' = (CASE op = "FindPattern" -> rng
                   [] op = "RecordPattern" -> RecordPatternResult(first, end, rng, c)
                   [] op = "RecordPatternInReverse" ->
                          ReverseResult(RecordPatternResult(first, end, rng, c)))
    /\ counters' = IF rev THEN ReverseCounters(c) ELSE c

\* FindPattern, lines 102-106, entered with the counters c
Enter(c) ==
    IF first = end
    THEN /\ Return([begin |-> end, end |-> end], c)
         /\ UNCHANGED <<begin, i, li, currentCounter, evals>>
    ELSE /\ pc' = "loop"
         /\ begin' = first /\ i' = first /\ li' = first
         /\ currentCounter' = 1
         /\ counters' = c
         /\ UNCHANGED <<range, evals>>

CallFindPattern ==
    /\ pc = "call" /\ op = "FindPattern"
    /\ Enter(counters)
    /\ UNCHANGED <<op, row, argBegin, argEnd, digitVars, view, threshold, result>>

\* line 142: counters.back() = 0
CallRecordPattern ==
    /\ pc = "call" /\ op = "RecordPattern"
    /\ Enter([counters EXCEPT ![Len(counters)] = 0])
    /\ UNCHANGED <<op, row, argBegin, argEnd, digitVars, view, threshold, result>>

CallRecordPatternInReverse ==
    /\ pc = "call" /\ op = "RecordPatternInReverse"
    /\ Enter([counters EXCEPT ![Len(counters)] = 0])
    /\ UNCHANGED <<op, row, argBegin, argEnd, digitVars, view, threshold, result>>

\* slip: getNextSetTo(i, end, *i), the colour is not negated
NextEdge_SameColour == getNextSetTo(rev, row, i, end, Deref(rev, row, i))

\* the value of the loop condition's assignment, line 108
NextEdge == getNextSetTo(rev, row, i, end, ~Deref(rev, row, i))

\* one iteration of the while loop up to the call of match: lines 108-110, 118
FindPatternLoop ==
    /\ pc = "loop"
    /\ NextEdge /= end
    /\ i' = NextEdge
    /\ counters' = [counters EXCEPT ![currentCounter] = Distance(rev, li, NextEdge)]
    /\ currentCounter' = currentCounter + 1
    /\ IF currentCounter + 1 = Len(counters) + 1
       THEN pc' = "match" /\ li' = li
       ELSE pc' = "loop" /\ li' = NextEdge
    /\ UNCHANGED <<op, row, argBegin, argEnd, begin, range, evals,
                   digitVars, view, threshold, result>>

\* slip: line 121 is left out, the width of the run that ends at end is lost
FindPatternExhausted_NoTrailingWidth ==
    /\ pc = "loop"
    /\ NextEdge = end
    /\ i' = NextEdge
    /\ Return([begin |-> end, end |-> end], counters)
    /\ UNCHANGED <<op, row, argBegin, argEnd, begin, li, currentCounter, evals,
                   digitVars, view, threshold, result>>

\* the loop ends at end: lines 108, 121, 123
FindPatternExhausted ==
    /\ pc = "loop"
    /\ NextEdge = end
    /\ i' = NextEdge
    /\ Return([begin |-> end, end |-> end],
              [counters EXCEPT ![currentCounter] = Distance(rev, li, NextEdge)])
    /\ UNCHANGED <<op, row, argBegin, argEnd, begin, li, currentCounter, evals,
                   digitVars, view, threshold, result>>

Evaluation(answer) ==
    [begin |-> begin, end |-> i, counters |-> counters, answer |-> answer]

\* match(begin, i, counters) is true: lines 111-112
MatchAccept ==
    /\ pc = "match"
    /\ evals' = Append(evals, Evaluation(TRUE))
    /\ Return([begin |-> begin, end |-> i], counters)
    /\ UNCHANGED <<op, row, argBegin, argEnd, begin, i, li, currentCounter,
                   digitVars, view, threshold, result>>

\* slip: std::advance(currentCounter, -1)
MatchReject_StepBackOne ==
    /\ pc = "match"
    /\ op = "FindPattern"
    /\ evals' = Append(evals, Evaluation(FALSE))
    /\ begin' = Advance(rev, begin, counters[1] + counters[2])
    /\ counters' = ShiftCounters(counters)
    /\ currentCounter' = currentCounter - 1
    /\ li' = i
    /\ pc' = "loop"
    /\ UNCHANGED <<op, row, argBegin, argEnd, i, range,
                   digitVars, view, threshold, result>>

\* match(begin, i, counters) is false: lines 111, 114-118.  The predicate of
\* RecordPattern is never false.
MatchReject ==
    /\ pc = "match"
    /\ op = "FindPattern"
    /\ evals' = Append(evals, Evaluation(FALSE))
    /\ begin' = Advance(rev, begin, counters[1] + counters[2])
    /\ counters' = ShiftCounters(counters)
    /\ currentCounter' = currentCounter - 2
    /\ li' = i
    /\ pc' = "loop"
    /\ UNCHANGED <<op, row, argBegin, argEnd, i, range,
                   digitVars, view, threshold, result>>

CallDecodeDigit ==
    /\ pc = "call" /\ op = "DecodeDigit"
    /\ result' = DecodeDigit(variances, maxAvgVariance, requireUnambiguousMatch)
    /\ pc' = "done"
    /\ UNCHANGED <<op, row, argBegin, argEnd, scanVars, digitVars, view, threshold>>

CallToNarrowWidePattern ==
    /\ pc = "call" /\ op = "ToNarrowWidePattern"
    /\ threshold' = NarrowWideThreshold(view)
    /\ result' = ToNarrowWidePattern(view)
    /\ pc' = "done"
    /\ UNCHANGED <<op, row, argBegin, argEnd, scanVars, digitVars, view>>

Next ==
    \/ CallFindPattern
    \/ CallRecordPattern
    \/ CallRecordPatternInReverse
    \/ FindPatternLoop
    \/ FindPatternExhausted
    \/ MatchAccept
    \/ MatchReject
    \/ CallDecodeDigit
    \/ CallToNarrowWidePattern

Spec == Init /\ [][Next]_vars

\* the call is not preempted: every enabled step of it is eventually taken
FairSpec == Spec /\ WF_vars(Next)

\* ------------------------------------------------ vocabulary of the claims
RECURSIVE SumSeq(_)
SumSeq(c) == IF c = <<>> THEN 0 ELSE c[1] + SumSeq(Tail(c))

\* the positions of [b, e) at which the colour differs from the position before
Boundaries(r, b, e) == {p \in (b + 1)..(e - 1) : r[p] /= r[p + 1]}
\* the number of same-colour runs of [b, e)
NumRuns(r, b, e) == IF b = e THEN 0 ELSE Cardinality(Boundaries(r, b, e)) + 1
\* the position after the n-th run of [b, e), 0 <= n <= NumRuns; Edge of 0 is b
Edge(r, b, e, n) ==
    IF n = 0 THEN b
    ELSE CHOOSE p \in Boundaries(r, b, e) \cup {e} :
             Cardinality({q \in Boundaries(r, b, e) : q < p}) = n - 1
\* the width of the n-th run of [b, e), 1 <= n <= NumRuns
Width(r, b, e, n) == Edge(r, b, e, n) - Edge(r, b, e, n - 1)
\* the row read backwards
ReverseRow(r) == [k \in 1..Len(r) |-> r[Len(r) + 1 - k]]

Returned(o) == pc = "done" /\ op = o
Empty(rng) == rng.begin = rng.end

\* C1: RecordPattern either returns an empty range or a non-empty range that
\* starts at begin and whose length is the sum of all the counters.
C1_SumIsLength ==
    Returned("RecordPattern") =>
        \/ Empty(range)
        \/ /\ range.begin = argBegin
           /\ range.begin < range.end
           /\ SumSeq(counters) = range.end - range.begin

\* a success that stops before end, with more than one counter
C1_Witness ==
    /\ Returned("RecordPattern")
    /\ Len(counters) = MaxCounters
    /\ argBegin > 0
    /\ range.begin < range.end /\ range.end < argEnd

\* C2: RecordPattern fails with an empty range exactly when [begin, end) has
\* fewer than N runs; with exactly N runs the result is [begin, end) and the
\* last counter is the width of the final run; with more than N runs the
\* result ends at the boundary after the N-th run.
C2_RunsDecideResult ==
    Returned("RecordPattern") =>
        LET n == NumRuns(row, argBegin, argEnd)
            N == Len(counters)
        IN  /\ Empty(range) <=> n < N
            /\ n = N => /\ range = [begin |-> argBegin, end |-> argEnd]
                        /\ counters[N] = Width(row, argBegin, argEnd, N)
            /\ n > N => /\ range = [begin |-> argBegin,
                                    end |-> Edge(row, argBegin, argEnd, N)]
                        /\ range.end < argEnd
            /\ n >= N => \A k \in 1..N : counters[k] = Width(row, argBegin, argEnd, k)

\* the N-th run ends exactly at end and is accepted
C2_Witness ==
    /\ Returned("RecordPattern")
    /\ Len(counters) = MaxCounters
    /\ NumRuns(row, argBegin, argEnd) = MaxCounters
    /\ range = [begin |-> argBegin, end |-> argEnd]
    /\ counters[MaxCounters] > 1

\* C3: RecordPatternInReverse is the mirror image of RecordPattern on the
\* reversed row: the counters are those of the forward call in reverse order
\* and the range [b, e) is the forward range [len - e, len - b); a success
\* holds the last N runs before end and ends at end, a failure is empty.
C3_ReverseMirrorsForward ==
    Returned("RecordPatternInReverse") =>
        LET len == Len(row)
            N == Len(counters)
            n == NumRuns(row, argBegin, argEnd)
            fw == RecordPattern(ReverseRow(row), len - argEnd, len - argBegin, Stale(N))
        IN  /\ counters = ReverseCounters(fw.counters)
            /\ fw.range = [begin |-> len - range.end, end |-> len - range.begin]
            /\ Empty(range) <=> n < N
            /\ ~Empty(range) =>
                   /\ range.end = argEnd
                   /\ \A k \in 1..N :
                          counters[k] = Width(row, argBegin, argEnd, n - N + k)

\* a reverse success over runs of different widths that stops after begin
C3_Witness ==
    /\ Returned("RecordPatternInReverse")
    /\ Len(counters) = MaxCounters
    /\ argEnd < Len(row)
    /\ range.begin > argBegin /\ range.end = argEnd
    /\ counters[1] /= counters[MaxCounters]

\* C4: FindPattern with N >= 2 evaluates match on windows in order: the first
\* starts at begin, each next one starts counters[0] + counters[1] after the
\* rejected one and keeps its last N - 2 counters in front; at every
\* evaluation the counters are the widths of the N runs of the window and sum
\* to its length; the first accepted window is returned, and {end, end} when
\* the row is exhausted.
C4_WindowOfEval(k) ==
    LET ev == evals[k]
        N == Len(ev.counters)
    IN  /\ ev.begin = IF k = 1 THEN argBegin
                      ELSE evals[k - 1].begin + evals[k - 1].counters[1]
                                              + evals[k - 1].counters[2]
        /\ k > 1 => \A j \in 1..(N - 2) : ev.counters[j] = evals[k - 1].counters[j + 2]
        /\ NumRuns(row, ev.begin, ev.end) = N
        /\ \A j \in 1..N : ev.counters[j] = Width(row, ev.begin, ev.end, j)
        /\ SumSeq(ev.counters) = ev.end - ev.begin
        /\ k < Len(evals) => ~ev.answer

C4_SlidingWindows ==
    op = "FindPattern" =>
        /\ \A k \in 1..Len(evals) : C4_WindowOfEval(k)
        /\ pc = "done" =>
               IF evals /= <<>> /\ evals[Len(evals)].answer
               THEN range = [begin |-> evals[Len(evals)].begin,
                             end |-> evals[Len(evals)].end]
               ELSE range = [begin |-> argEnd, end |-> argEnd]

\* the second window of three counters is the first one accepted
C4_Witness ==
    /\ Returned("FindPattern")
    /\ Len(counters) = 3
    /\ Len(evals) = 2
    /\ evals[1].counters[2] /= evals[1].counters[3]
    /\ evals[2].answer
    /\ range.begin > argBegin

\* C5: with requireUnambiguousMatch, DecodeDigit returns -1 whenever two or
\* more patterns share the minimal variance, and returns index i whenever
\* pattern i alone has the minimal variance and it is below maxAvgVariance,
\* whatever the order of the variances (a tie before a better one included).
MinVariance == SetMin({variances[k] : k \in 1..Len(variances)})
AtMinimum == {k \in 1..Len(variances) : variances[k] = MinVariance}

C5_UnambiguousMatch ==
    (Returned("DecodeDigit") /\ requireUnambiguousMatch) =>
        /\ Cardinality(AtMinimum) >= 2 => result = INVALID_MATCH
        /\ \A k \in 1..Len(variances) :
               (AtMinimum = {k} /\ variances[k] < maxAvgVariance) => result = k - 1

\* two acceptable patterns tie, a later one is strictly better and is returned
C5_Witness ==
    /\ Returned("DecodeDigit") /\ requireUnambiguousMatch
    /\ Len(variances) = 3
    /\ variances[1] = variances[2] /\ variances[1] < maxAvgVariance
    /\ variances[3] < variances[2]
    /\ result = 2

\* the maximum and minimum width among the bars (par = 0) or spaces (par = 1)
WidestOf(par) == SetMax(Elements(view, par))
NarrowestOf(par) == SetMin(Elements(view, par))

C7_Pattern0101 ==
    (Returned("ToNarrowWidePattern") /\ view = <<2, 6, 2, 6>>) => result = 5

\* C7 amended: ToNarrowWidePattern of the window [2,6,2,6] is 0b0000: the bars
\* {2,2} and the spaces {6,6} have their own thresholds, 3 and 9, and no
\* element is wider than its threshold.
C7_Pattern0000 ==
    (Returned("ToNarrowWidePattern") /\ view = <<2, 6, 2, 6>>) =>
        /\ threshold = <<3, 9>>
        /\ result = 0

C7_Witness ==
    /\ Returned("ToNarrowWidePattern")
    /\ view = <<2, 6, 2, 6>>
    /\ isValid(threshold)

\* C10 as stated: some window of positive run widths has a valid
\* NarrowWideThreshold and is nevertheless rejected by ToNarrowWidePattern.
C10_SpikeCaught ==
    Returned("ToNarrowWidePattern") =>
        \E v \in Views :     isValid(NarrowWideThreshold(v)) /\ ToNarrowWidePattern(v) = -1

\* C10 amended: for every window of positive run widths with a valid
\* NarrowWideThreshold no element exceeds twice its bar/space threshold, so
\* ToNarrowWidePattern returns a pattern and never -1.
C10_NoSpikeLeft ==
    (Returned("ToNarrowWidePattern") /\ isValid(threshold)) =>
        /\ \A k \in 1..Len(view) : view[k] <= 2 * BarAndSpace(threshold, k - 1)
        /\ result >= 0

\* a valid window with distinct widths, one element at twice its threshold
C10_Witness ==
    /\ Returned("ToNarrowWidePattern")
    /\ isValid(threshold)
    /\ \E k \in 1..Len(view) :
           /\ view[k] = 2 * BarAndSpace(threshold, k - 1)
           /\ view[k] >= 4
    /\ result > 0

\* C8: FindPattern, RecordPattern and RecordPatternInReverse terminate: every
\* loop iteration moves i strictly towards end and never past it, and every
\* call returns.
C8_Terminates ==
    /\ [][pc = "loop" => (Distance(rev, i, i') > 0 /\ Distance(rev, i', end) >= 0)]_vars
    /\ (op \in ScanOps) => <>(pc = "done")

\* a search over a whole row of single-pixel runs, every window rejected
C8_Witness ==
    /\ Returned("FindPattern")
    /\ argBegin = 0 /\ argEnd = MaxLen
    /\ NumRuns(row, argBegin, argEnd) = MaxLen
    /\ Len(evals) >= 2
    /\ Empty(range)

\* the windows of N runs whose N-th run ends at or before the lim-th run
WindowsUpTo(N, lim) == {k \in 1..MaxLen + 1 : 2 * (k - 1) + N <= lim}
Accepted == evals /= <<>> /\ evals[Len(evals)].answer
\* the k-th evaluation of match was made on the k-th window and its widths
EvaluatedOn(k) ==
    LET N == Len(counters)
    IN  /\ k <= Len(evals)
        /\ evals[k].begin = Edge(row, argBegin, argEnd, 2 * (k - 1))
        /\ evals[k].end = Edge(row, argBegin, argEnd, 2 * (k - 1) + N)
        /\ \A j \in 1..N :
               evals[k].counters[j] = Width(row, argBegin, argEnd, 2 * (k - 1) + j)

\* C9 as stated: match is evaluated on every window for which N run widths
\* have been accumulated, the one whose N-th run ends at end included.
C9_EveryFullWindow ==
    (Returned("FindPattern") /\ ~Accepted) =>
        \A k \in WindowsUpTo(Len(counters), NumRuns(row, argBegin, argEnd)) :
            EvaluatedOn(k)

\* C9 amended: match is evaluated on every window whose N-th run is ended by
\* a colour change before end, and on no other; for a window whose N-th run is
\* ended by reaching end the N widths are in the counters, match is not
\* evaluated and FindPattern returns {end, end}.
C9_EveryWindowBeforeEnd ==
    Returned("FindPattern") =>
        LET N == Len(counters)
            n == NumRuns(row, argBegin, argEnd)
            before == WindowsUpTo(N, n - 1)
            flush == WindowsUpTo(N, n) \ before
        IN  /\ \A k \in 1..Len(evals) : EvaluatedOn(k) /\ k \in before
            /\ ~Accepted =>
                   /\ \A k \in before : EvaluatedOn(k)
                   /\ \A k \in flush :
                          /\ \A j \in 1..N :
                                 counters[j] = Width(row, argBegin, argEnd, 2 * (k - 1) + j)
                          /\ \A e \in 1..Len(evals) : evals[e].end /= argEnd
                          /\ range = [begin |-> argEnd, end |-> argEnd]

\* a rejected window, then a window of three runs that ends at end
C9_Witness ==
    /\ Returned("FindPattern") /\ ~Accepted
    /\ Len(counters) = 3
    /\ Len(evals) = 1
    /\ NumRuns(row, argBegin, argEnd) = 5
    /\ counters[1] /= counters[3]

====
